---- MODULE Spec2Model ----
(***************************************************************************)
(* Model of src/t.py, the plarail description-language prototype.          *)
(*                                                                         *)
(* The program is a library: Straight(), EndPoint(..), SelectedJoint(..)   *)
(* and connect(..) build Component objects that hold references to Joint   *)
(* objects.  Joint objects are mutable and shared by reference (connect    *)
(* translates the joints of its target in place, SelectedJoint and         *)
(* ConnectedComponent alias joints of the parts they wrap), so the model   *)
(* keeps an explicit object heap:                                          *)
(*   heap   the Joint objects, in allocation order; a joint's identity is  *)
(*          its index in heap                                              *)
(*   parts  the Component objects built so far, in allocation order; a     *)
(*          part's identity is its index in parts                          *)
(*   last   a record of the most recent call: its arguments, its outcome   *)
(*          (a returned part or the exception raised) and the heap as it   *)
(*          was when the call started                                      *)
(*                                                                         *)
(* Positions are numpy float64 arrays in the source.  The model draws      *)
(* integer coordinates; float64 represents integers of this size, their    *)
(* sums and their differences exactly, so integer arithmetic is what the   *)
(* source computes on these inputs.                                        *)
(***************************************************************************)
EXTENDS Integers, Sequences, FiniteSets, TLC

\* The number of Component objects a run may build.
MaxParts == 4

VARIABLES heap, parts, last

vars == <<heap, parts, last>>

---------------------------------------------------------------------------
\* numpy arithmetic on 3-vectors (elementwise).

add(p, q) == [k \in 1..3 |-> p[k] + q[k]]

sub(p, q) == [k \in 1..3 |-> p[k] - q[k]]

\* Joint.__init__: the rotation is normalised modulo 8 (Python's % is
\* non-negative for a positive modulus, as is TLA+'s).
Joint(position, rotation, is_male) ==
    [position |-> position, rotation |-> rotation % 8, is_male |-> is_male]

\* A Component attribute that holds a position: absent (Straight never sets
\* it), the caller's tuple (EndPoint), or a reference to the numpy array of
\* joint `ref` (SelectedJoint stores j.position itself, not a copy).
NoPosition == [tag |-> "unset", ref |-> 0, val |-> <<0, 0, 0>>]

TuplePosition(v) == [tag |-> "tuple", ref |-> 0, val |-> v]

ArrayPosition(j) == [tag |-> "array", ref |-> j, val |-> <<0, 0, 0>>]

\* The arguments EndPoint is called with.  Rotations outside 0..7 exercise
\* the normalisation in Joint.__init__.
EndPointInputs ==
    { [position |-> <<10, 0, 0>>, rotation |-> 0,  is_male |-> TRUE],
      [position |-> <<0, 0, 0>>,  rotation |-> -6, is_male |-> FALSE],
      [position |-> <<0, 3, 0>>,  rotation |-> 10, is_male |-> TRUE] }

\* The indices SelectedJoint is called with.
IndexInputs == -3..2

---------------------------------------------------------------------------
\* The record of a call.

Call(op, outcome, c1, c2, index, anchor, target, j1, j2, ret) ==
    [op |-> op, outcome |-> outcome, c1 |-> c1, c2 |-> c2, index |-> index,
     anchor |-> anchor, target |-> target, j1 |-> j1, j2 |-> j2, ret |-> ret,
     prev |-> heap]

Init ==
    /\ heap = <<>>
    /\ parts = <<>>
    /\ last = Call("none", "ok", 0, 0, 0, 0, 0, 0, 0, 0)

---------------------------------------------------------------------------
\* Straight(): two new joints, no children, position and rotation unset.

Straight ==
    /\ Len(parts) < MaxParts
    /\ heap' = heap \o << Joint(<<0, 0, 0>>, 4, FALSE), Joint(<<1, 0, 0>>, 0, TRUE) >>
    /\ parts' = Append(parts,
                   [kind |-> "Straight",
                    joints |-> << Len(heap) + 1, Len(heap) + 2 >>,
                    children |-> <<>>,
                    position |-> NoPosition,
                    rotation |-> <<>>])
    /\ last' = Call("Straight", "ok", 0, 0, 0, 0, 0, 0, 0, Len(parts) + 1)

\* EndPoint(position, rotation, is_male): one new joint; the part keeps the
\* caller's position and the rotation as given (not normalised).
EndPoint(e) ==
    /\ Len(parts) < MaxParts
    /\ heap' = Append(heap, Joint(e.position, e.rotation, e.is_male))
    /\ parts' = Append(parts,
                   [kind |-> "EndPoint",
                    joints |-> << Len(heap) + 1 >>,
                    children |-> <<>>,
                    position |-> TuplePosition(e.position),
                    rotation |-> << e.rotation >>])
    /\ last' = Call("EndPoint", "ok", 0, 0, 0, 0, 0, 0, 0, Len(parts) + 1)

---------------------------------------------------------------------------
\* component.joints[joint_index] on a Python list: the 1-based place of the
\* element read, or 0 when the read raises IndexError.  A negative index
\* counts from the end of the list.

\* Variant of getitem with an off-by-one upper limit: index len(s) reads the
\* last element.
getitem_clamp(s, i) ==
    IF i >= 0 /\ i <= Len(s) /\ Len(s) > 0 THEN (IF i = Len(s) THEN Len(s) ELSE i + 1)
    ELSE IF i < 0 /\ -i <= Len(s) THEN Len(s) + i + 1
    ELSE 0

\* list.__getitem__ for an int index.
getitem(s, i) ==
    IF i >= 0 /\ i < Len(s) THEN i + 1
    ELSE IF i < 0 /\ -i <= Len(s) THEN Len(s) + i + 1
    ELSE 0

\* SelectedJoint(component, joint_index).  The index is read after
\* self.children is set, but an IndexError leaves no object behind.  The new
\* part shares the selected Joint object and its position array.
SelectedJoint(component, joint_index) ==
    LET js == parts[component].joints
        k  == getitem(js, joint_index)
    IN /\ Len(parts) < MaxParts
       /\ UNCHANGED heap
       /\ IF k = 0
          THEN /\ UNCHANGED parts
               /\ last' = Call("SelectedJoint", "IndexError", component, 0,
                               joint_index, 0, 0, 0, 0, 0)
          ELSE /\ parts' = Append(parts,
                              [kind |-> "SelectedJoint",
                               joints |-> << js[k] >>,
                               children |-> << component >>,
                               position |-> ArrayPosition(js[k]),
                               rotation |-> << 0 >>])
               /\ last' = Call("SelectedJoint", "ok", component, 0,
                               joint_index, 0, 0, 0, 0, Len(parts) + 1)

---------------------------------------------------------------------------
\* _connect, piece by piece.

\* Variant of j2s without the gender test.
j2s_any_gender(j1, c2) == parts[c2].joints

\* [j for j in c2.joints if j.is_male != j1.is_male]
j2s(j1, c2) ==
    SelectSeq(parts[c2].joints, LAMBDA j : heap[j].is_male # heap[j1].is_male)

\* Variant of rotation_needed without the orientation test.
rotation_needed_never(j1, j2) == FALSE

\* (j1.rotation + j2.rotation) != 4

rotation_needed(j1, j2) == (heap[j1].rotation + heap[j2].rotation) # 4

\* for j in c2.joints: j.position += dpos      (in place, one joint at a time)
RECURSIVE translate(_, _, _)
translate(h, js, dpos) ==
    IF js = <<>> THEN h
    ELSE translate([h EXCEPT ![Head(js)].position = add(@, dpos)], Tail(js), dpos)

\* Variant of remaining that keeps the matched joint.
remaining_all(c2, j2) == parts[c2].joints

\* [j for j in c2.joints if j != j2]; Joint defines no __eq__, so != compares
\* object identity.

remaining(c2, j2) == SelectSeq(parts[c2].joints, LAMBDA j : j # j2)

\* A call of connect that raises `e`: nothing is built and nothing is written.
Raised(e, anchor, target, j1, j2) ==
    [outcome |-> e, anchor |-> anchor, target |-> target, j1 |-> j1, j2 |-> j2,
     heap |-> heap, made |-> <<>>]

\* _connect(c1, c2): c1 is the anchor (its only joint is j1), c2 the target.
\* Both raises come before the first write; on success the target's joints
\* are translated in place and a ConnectedComponent is built that takes the
\* anchor's position and rotation attributes by reference.
_connect(c1, c2) ==
    LET j1   == parts[c1].joints[1]
        cand == j2s(j1, c2)
    IN IF Len(cand) = 1
       THEN LET j2 == cand[1] IN
            IF rotation_needed(j1, j2)
            THEN Raised("NotImplementedError", c1, c2, j1, j2)
            ELSE LET dpos == sub(heap[j1].position, heap[j2].position) IN
                 [outcome |-> "ok", anchor |-> c1, target |-> c2,
                  j1 |-> j1, j2 |-> j2,
                  heap |-> translate(heap, parts[c2].joints, dpos),
                  made |-> << [kind |-> "ConnectedComponent",
                               joints |-> remaining(c2, j2),
                               children |-> << c1, c2 >>,
                               position |-> parts[c1].position,
                               rotation |-> parts[c1].rotation] >>]
       ELSE Raised("RuntimeError: Ambiguous Connection", c1, c2, j1, 0)

\* Variant of connect whose second test accepts any non-empty c2.
connect_any_joint(c1, c2) ==
    IF Len(parts[c1].joints) = 1 THEN _connect(c1, c2)
    ELSE IF Len(parts[c2].joints) >= 1 THEN _connect(c2, c1)
    ELSE Raised("RuntimeError: Ambiguous Connection", 0, 0, 0, 0)

\* Variant of connect that tests c2 before c1.
connect_second_first(c1, c2) ==
    IF Len(parts[c2].joints) = 1 THEN _connect(c2, c1)
    ELSE IF Len(parts[c1].joints) = 1 THEN _connect(c1, c2)
    ELSE Raised("RuntimeError: Ambiguous Connection", 0, 0, 0, 0)

\* connect(c1, c2): the first argument with exactly one joint is the anchor.
connect(c1, c2) ==
    IF Len(parts[c1].joints) = 1 THEN _connect(c1, c2)
    ELSE IF Len(parts[c2].joints) = 1 THEN _connect(c2, c1)
    ELSE Raised("RuntimeError: Ambiguous Connection", 0, 0, 0, 0)

\* A call connect(c1, c2) on two parts built earlier (the same part may be
\* passed twice, and a part may be passed to any number of calls).
Connect(c1, c2) ==
    LET r == connect(c1, c2) IN
    /\ Len(parts) < MaxParts
    /\ heap' = r.heap
    /\ parts' = parts \o r.made
    /\ last' = Call("connect", r.outcome, c1, c2, 0, r.anchor, r.target,
                    r.j1, r.j2, IF r.made = <<>> THEN 0 ELSE Len(parts) + 1)

---------------------------------------------------------------------------
Next ==
    \/ Straight
    \/ \E e \in EndPointInputs : EndPoint(e)
    \/ \E c \in 1..Len(parts), i \in IndexInputs : SelectedJoint(c, i)
    \/ \E c1 \in 1..Len(parts), c2 \in 1..Len(parts) : Connect(c1, c2)

Spec == Init /\ [][Next]_vars

---------------------------------------------------------------------------
\* Vocabulary of the properties.  Each property reads the call record `last`
\* and recomputes what the call should have done from the heap as it was when
\* the call started (last.prev); none of them uses the operators of _connect.

JointsOf(p) == parts[p].joints

NumJoints(p) == Len(parts[p].joints)

ConnectCall == last.op = "connect"

ConnectOk == ConnectCall /\ last.outcome = "ok"

\* The anchor and the target the source's connect is documented to choose.
ExpectedAnchor ==
    IF NumJoints(last.c1) = 1 THEN last.c1
    ELSE IF NumJoints(last.c2) = 1 THEN last.c2
    ELSE 0

ExpectedTarget == IF ExpectedAnchor = last.c1 THEN last.c2 ELSE last.c1

\* The places in the target's joint list whose joint has the gender opposite
\* to the anchor joint's, when the call started.
CompatiblePlaces ==
    { i \in 1..NumJoints(ExpectedTarget) :
        last.prev[JointsOf(ExpectedTarget)[i]].is_male
            # last.prev[JointsOf(ExpectedAnchor)[1]].is_male }

\* No joint of either argument has moved during the call.
ArgumentsUnmoved ==
    \A p \in {last.c1, last.c2} : \A i \in 1..NumJoints(p) :
        heap[JointsOf(p)[i]].position = last.prev[JointsOf(p)[i]].position

\* anchor.position - matched.position, when the call started.
Offset == sub(last.prev[last.j1].position, last.prev[last.j2].position)

IsFreshStraight(p) ==
    /\ parts[p].kind = "Straight"
    /\ last.prev[JointsOf(p)[1]] = Joint(<<0, 0, 0>>, 4, FALSE)
    /\ last.prev[JointsOf(p)[2]] = Joint(<<1, 0, 0>>, 0, TRUE)

RECURSIVE Subtree(_)
Subtree(p) ==
    IF parts[p].children = <<>> THEN {p}
    ELSE {p} \cup UNION { Subtree(parts[p].children[i]) :
                            i \in 1..Len(parts[p].children) }

---------------------------------------------------------------------------
\* C1: connect(a, b) raises RuntimeError('Ambiguous Connection') whenever
\* neither a nor b exposes exactly one joint, and then no joint of a or b
\* has its position changed.
C1_NoSingleJointIsAmbiguous ==
    (ConnectCall /\ NumJoints(last.c1) # 1 /\ NumJoints(last.c2) # 1) =>
        /\ last.outcome = "RuntimeError: Ambiguous Connection"
        /\ last.ret = 0
        /\ ArgumentsUnmoved

\* connect(Straight(), Straight()) on two distinct Straight parts has raised.
C1_Witness ==
    /\ ConnectCall
    /\ last.c1 # last.c2
    /\ parts[last.c1].kind = "Straight"
    /\ parts[last.c2].kind = "Straight"
    /\ last.outcome = "RuntimeError: Ambiguous Connection"

\* C2: after every successful connect the matched joint of the target is at
\* exactly the position of the anchor's joint.
C2_MatchedJointCoincidesWithAnchor ==
    ConnectOk => heap[last.j2].position = heap[last.j1].position

\* C3: after a successful connect the result exposes the target's joints, in
\* the target's order, each translated by anchor.position - matched.position
\* and otherwise as it was, with only the matched joint removed; that is
\* len(target.joints) - 1 = len(a.joints) + len(b.joints) - 2 joints.  A male
\* anchor joint of orientation 0 at p connected to a fresh Straight yields the
\* single joint (p + (1,0,0), 0, male).
C3_ResultExposesTargetJointsLessMatched ==
    ConnectOk =>
        LET t == JointsOf(ExpectedTarget)
            r == JointsOf(last.ret)
            a == last.prev[JointsOf(ExpectedAnchor)[1]]
        IN /\ Len(r) = Len(t) - 1
           /\ Len(r) = NumJoints(last.c1) + NumJoints(last.c2) - 2
           /\ \E k \in CompatiblePlaces :
                r = SubSeq(t, 1, k - 1) \o SubSeq(t, k + 1, Len(t))
           /\ \A i \in 1..Len(r) :
                heap[r[i]] = [last.prev[r[i]] EXCEPT !.position = add(@, Offset)]
           /\ (a.is_male /\ a.rotation = 0 /\ IsFreshStraight(ExpectedTarget)) =>
                /\ Len(r) = 1
                /\ heap[r[1]] = [position |-> add(a.position, <<1, 0, 0>>),
                                 rotation |-> 0, is_male |-> TRUE]

\* connect(EndPoint((10, 0, 0), 0, True), Straight()) has returned a part
\* whose only joint is ((11, 0, 0), 0, male).
C3_Witness ==
    /\ ConnectOk
    /\ parts[last.c1].kind = "EndPoint"
    /\ last.prev[JointsOf(last.c1)[1]].position = <<10, 0, 0>>
    /\ IsFreshStraight(last.c2)
    /\ NumJoints(last.ret) = 1
    /\ heap[JointsOf(last.ret)[1]].position = <<11, 0, 0>>

\* C4: when the target has exactly one joint of the gender opposite to the
\* anchor joint's and the two orientations do not sum to 4, connect raises
\* NotImplementedError, returns no part and moves no joint of a or b.
C4_UnsupportedOrientationFailsCleanly ==
    (/\ ConnectCall
     /\ ExpectedAnchor # 0
     /\ Cardinality(CompatiblePlaces) = 1
     /\ \E k \in CompatiblePlaces :
          last.prev[JointsOf(ExpectedAnchor)[1]].rotation
            + last.prev[JointsOf(ExpectedTarget)[k]].rotation # 4) =>
        /\ last.outcome = "NotImplementedError"
        /\ last.ret = 0
        /\ ArgumentsUnmoved

\* A connect of two parts of opposite gender whose orientations do not sum
\* to 4 has raised NotImplementedError.
C4_Witness ==
    /\ ConnectCall
    /\ last.outcome = "NotImplementedError"
    /\ Cardinality(CompatiblePlaces) = 1
    /\ last.prev[last.j1].rotation + last.prev[last.j2].rotation # 4

\* C5: no Joint that existed before a call has a different position,
\* orientation or gender after it.
C5_ExistingJointsNeverChange ==
    \A j \in 1..Len(last.prev) : heap[j] = last.prev[j]

\* C6: the children of the result of a successful connect(a, b) are exactly
\* [anchor, target]; the anchor is a whenever a exposes exactly one joint,
\* and b only when a does not and b does.
C6_ChildrenAreAnchorThenTarget ==
    ConnectOk =>
        /\ ExpectedAnchor # 0
        /\ parts[last.ret].children = << ExpectedAnchor, ExpectedTarget >>
        /\ NumJoints(last.c1) = 1 => parts[last.ret].children = << last.c1, last.c2 >>
        /\ NumJoints(last.c1) # 1 =>
             /\ NumJoints(last.c2) = 1
             /\ parts[last.ret].children = << last.c2, last.c1 >>

\* A connect of two distinct one-joint parts has succeeded.
C6_Witness ==
    /\ ConnectOk
    /\ last.c1 # last.c2
    /\ NumJoints(last.c1) = 1
    /\ NumJoints(last.c2) = 1
    /\ parts[last.ret].children = << last.c1, last.c2 >>

\* C7 as stated: SelectedJoint(part, i) raises IndexError for every i outside
\* 0 .. len(part.joints)-1, and for i inside it returns a part exposing
\* exactly part.joints[i] with part as its sole child.
C7_IndexOutsideZeroToLenRaises ==
    last.op = "SelectedJoint" =>
        LET n == NumJoints(last.c1) IN
        IF last.index \in 0..(n - 1)
        THEN /\ last.outcome = "ok"
             /\ JointsOf(last.ret) = << JointsOf(last.c1)[last.index + 1] >>
             /\ parts[last.ret].children = << last.c1 >>
        ELSE last.outcome = "IndexError" /\ last.ret = 0

\* C7 amended: SelectedJoint(part, i) raises IndexError exactly for the i
\* outside -len(part.joints) .. len(part.joints)-1; for i in 0 .. len-1 it
\* returns a part exposing exactly part.joints[i], for i in -len .. -1 a part
\* exposing exactly part.joints[len+i], in both cases with part as its sole
\* child.
C7_IndexOutsideMinusLenToLenRaises ==
    last.op = "SelectedJoint" =>
        LET n == NumJoints(last.c1) IN
        IF last.index \in (-n)..(n - 1)
        THEN /\ last.outcome = "ok"
             /\ parts[last.ret].kind = "SelectedJoint"
             /\ JointsOf(last.ret) =
                  << JointsOf(last.c1)[IF last.index >= 0 THEN last.index + 1
                                       ELSE n + last.index + 1] >>
             /\ parts[last.ret].children = << last.c1 >>
             /\ heap = last.prev
        ELSE /\ last.outcome = "IndexError"
             /\ last.ret = 0
             /\ heap = last.prev

\* SelectedJoint(part, -1) on a two-joint part has returned a part exposing
\* the part's last joint.
C7_Witness ==
    /\ last.op = "SelectedJoint"
    /\ last.index = -1
    /\ NumJoints(last.c1) = 2
    /\ last.outcome = "ok"
    /\ JointsOf(last.ret) = << JointsOf(last.c1)[2] >>

\* C8: a successful connect moves every part of the target's subtree rigidly:
\* the differences between the positions of the joints of each such part are
\* the same after the call as before it.
C8_TargetSubtreeMovesRigidly ==
    ConnectOk =>
        \A p \in Subtree(ExpectedTarget) :
            \A i \in 1..NumJoints(p), k \in 1..NumJoints(p) :
                sub(heap[JointsOf(p)[i]].position, heap[JointsOf(p)[k]].position)
                  = sub(last.prev[JointsOf(p)[i]].position,
                        last.prev[JointsOf(p)[k]].position)

\* C9: the orientation check accepts a gender-matched pair exactly when the
\* two orientations are a half-turn apart (their difference is 4 modulo 8).
C9_AcceptedIffHalfTurnApart ==
    (ConnectCall /\ ExpectedAnchor # 0 /\ Cardinality(CompatiblePlaces) = 1) =>
        LET r1 == last.prev[JointsOf(ExpectedAnchor)[1]].rotation
            r2 == last.prev[JointsOf(ExpectedTarget)[CHOOSE k \in CompatiblePlaces : TRUE]].rotation
        IN (last.outcome = "ok") <=> ((r1 - r2) % 8 = 4)

\* C10: once an anchor is chosen, connect raises RuntimeError('Ambiguous
\* Connection') whenever the number of target joints of the gender opposite
\* to the anchor joint's is not 1, moving no joint; it succeeds only when
\* that number is 1.
C10_CandidateCountMustBeOne ==
    (ConnectCall /\ ExpectedAnchor # 0) =>
        /\ Cardinality(CompatiblePlaces) # 1 =>
             /\ last.outcome = "RuntimeError: Ambiguous Connection"
             /\ last.ret = 0
             /\ heap = last.prev
        /\ last.outcome = "ok" => Cardinality(CompatiblePlaces) = 1

\* A connect whose anchor was chosen and whose target has no joint of the
\* opposite gender has raised.
C10_Witness ==
    /\ ConnectCall
    /\ ExpectedAnchor # 0
    /\ NumJoints(ExpectedTarget) > 0
    /\ Cardinality(CompatiblePlaces) = 0
    /\ last.outcome = "RuntimeError: Ambiguous Connection"

====
